---- MODULE Spec2Model ----
(***************************************************************************)
(* Model of the verify-razorpay-payment edge function                      *)
(* (supabase/functions/verify-razorpay-payment/index.ts).                  *)
(*                                                                         *)
(* Each invocation of the Deno.serve handler is a process.  Its position   *)
(* (pc) names the awaited call it is suspended on; an action is the return *)
(* of that call (with the call's effect on the store) followed by the      *)
(* handler's code up to the next awaited call or to the response.          *)
(* Invocations share the primary store (tickets, transactions,             *)
(* seller_payouts), the secondary store (external) and the environment.    *)
(* Timestamps (new Date().toISOString()) are abstracted to the token Now.  *)
(***************************************************************************)
EXTENDS Integers, Sequences, FiniteSets, TLC

VARIABLES env, tickets, transactions, seller_payouts, external, inv

vars == <<env, tickets, transactions, seller_payouts, external, inv>>

(* ---------------------------- bounds ----------------------------------- *)

\* number of handler invocations in one behaviour
NumInv == 2

Invocations == 1..NumInv

\* largest selling price of the settlement specification
MaxPrice == 1000

(* ---------------------------- values ----------------------------------- *)

\* JavaScript undefined / null, and the abstract timestamp
Undefined == "<undefined>"
Null == "<null>"
Now == "<now>"

\* !v for the string-or-undefined values of the request body and of env
Falsy(v) == v \in {Undefined, Null, ""}

\* a || b
OrElse(a, b) == IF Falsy(a) THEN b ELSE a

(* ---------------------------- environment ------------------------------ *)

EnvNames == {"RAZORPAY_KEY_SECRET", "SUPABASE_URL", "SUPABASE_SERVICE_ROLE_KEY",
             "EXTERNAL_SUPABASE_URL", "EXTERNAL_SUPABASE_SERVICE_ROLE_KEY",
             "EXTERNAL_SUPABASE_ANON_KEY"}

FullEnv == [n \in EnvNames |-> n]

Without(e, names) == [n \in EnvNames |-> IF n \in names THEN Undefined ELSE e[n]]

\* the deployments considered: everything set, each required secret unset,
\* and the secondary store with the service key, the anonymous key, or absent
Envs == { FullEnv,
          Without(FullEnv, {"RAZORPAY_KEY_SECRET"}),
          Without(FullEnv, {"SUPABASE_URL"}),
          Without(FullEnv, {"SUPABASE_SERVICE_ROLE_KEY"}),
          Without(FullEnv, {"EXTERNAL_SUPABASE_SERVICE_ROLE_KEY"}),
          Without(FullEnv, {"EXTERNAL_SUPABASE_URL"}),
          Without(FullEnv, {"EXTERNAL_SUPABASE_SERVICE_ROLE_KEY",
                            "EXTERNAL_SUPABASE_ANON_KEY"}) }

\* Deno.env.get(name)
EnvGet(name) == env[name]

(* ---------------------------- primary store ---------------------------- *)

TicketIds == {"T1", "T2"}
\* an identifier no row of tickets has
MissingTicketId == "T9"

InitialTickets ==
  [t \in TicketIds |->
     IF t = "T1"
     THEN [id |-> "T1", selling_price |-> 1000, seller_id |-> "S1",
           status |-> "available", buyer_id |-> Null,
           passenger_name |-> "Seller One", pnr_number |-> "PNR1",
           sold_at |-> Null]
     ELSE [id |-> "T2", selling_price |-> 30, seller_id |-> "S2",
           status |-> "available", buyer_id |-> Null,
           passenger_name |-> "Seller Two", pnr_number |-> Null,
           sold_at |-> Null]]

NoTicket == [id |-> Null, selling_price |-> 0, seller_id |-> Null,
             status |-> Null, buyer_id |-> Null, passenger_name |-> Null,
             pnr_number |-> Null, sold_at |-> Null]

PnrNumbers == {"PNR1"}

\* the secondary store: the passenger_name of the row with each pnr_number
InitialExternal == [p \in PnrNumbers |-> InitialTickets["T1"].passenger_name]

(* ---------------------------- requests --------------------------------- *)

RequiredFields == {"razorpay_payment_id", "razorpay_order_id",
                   "razorpay_signature", "ticketId"}

\* buyer_id and buyer_name are optional: given, absent, or an empty name
Buyers == { [buyer_id |-> "B1", buyer_name |-> "Alice"],
            [buyer_id |-> Undefined, buyer_name |-> Undefined],
            [buyer_id |-> "B2", buyer_name |-> ""] }

CompleteBody(t, b) ==
  [razorpay_payment_id |-> "p1", razorpay_order_id |-> "o1",
   razorpay_signature |-> "s1", ticketId |-> t,
   buyer_id |-> b.buyer_id, buyer_name |-> b.buyer_name]

CompleteBodies ==
  { CompleteBody(t, b) : t \in TicketIds \cup {MissingTicketId}, b \in Buyers }

\* one required field absent, or present and empty
IncompleteBodies ==
  { [CompleteBody("T1", [buyer_id |-> "B1", buyer_name |-> "Alice"])
       EXCEPT ![f] = v] : f \in RequiredFields, v \in {Undefined, ""} }

\* an empty object: every field absent
EmptyBody ==
  [razorpay_payment_id |-> Undefined, razorpay_order_id |-> Undefined,
   razorpay_signature |-> Undefined, ticketId |-> Undefined,
   buyer_id |-> Undefined, buyer_name |-> Undefined]

\* bodies req.json() cannot parse, and the JSON value null
Unparseable == "<unparseable>"
JsonNull == "<json null>"

Bodies == CompleteBodies \cup IncompleteBodies \cup {EmptyBody}

\* the Authorization header: absent, or a bearer token that the identity
\* provider rejects, or accepts for a user without / with email_confirmed_at
Tokens == {"invalid", "unverified", "verified"}
AuthHeaders == {Null} \cup Tokens

NoBody == EmptyBody

Requests ==
  [method : {"POST"}, authorization : AuthHeaders, kind : {"object"}, body : Bodies]
  \cup [method : {"POST"}, authorization : AuthHeaders,
        kind : {Unparseable, JsonNull}, body : {NoBody}]
  \cup [method : {"OPTIONS"}, authorization : {Null}, kind : {"object"},
        body : {NoBody}]

NoRequest == [method |-> Null, authorization |-> Null, kind |-> Null, body |-> NoBody]

(* ---------------------------- responses -------------------------------- *)

NoSummary == [id |-> 0, amount |-> 0, platformCommission |-> 0,
              sellerAmount |-> 0, status |-> Null]

NoResponse == [status |-> 0, error |-> Null, transaction |-> NoSummary,
               ticket_status |-> Null]

\* new Response(JSON.stringify({ error }), { status })
ErrorResponse(status, error) ==
  [status |-> status, error |-> error, transaction |-> NoSummary,
   ticket_status |-> Null]

\* the answer to a CORS preflight: new Response(null, { status: 204 })
PreflightResponse ==
  [status |-> 204, error |-> Null, transaction |-> NoSummary, ticket_status |-> Null]

\* the catch block of the handler
CatchResponse == ErrorResponse(500, "Internal server error while verifying payment")

NoUser == [found |-> FALSE, email_confirmed_at |-> Null]

\* no mirror PATCH issued
NoPatch == [apikey |-> Null, pnr_number |-> Null, body |-> [passenger_name |-> Null]]

IdleInvocation ==
  [pc |-> "idle", req |-> NoRequest, user |-> NoUser, ticket |-> NoTicket,
   transaction_id |-> 0, resp |-> NoResponse, calls |-> {}, failed |-> {},
   patch |-> NoPatch]

Init ==
  /\ env \in Envs
  /\ tickets = InitialTickets
  /\ transactions = <<>>
  /\ seller_payouts = <<>>
  /\ external = InitialExternal
  /\ inv = [i \in Invocations |-> IdleInvocation]

\* the handler returns: the invocation (in local state rec) ends with response r
Respond(i, rec, r) ==
  inv' = [inv EXCEPT ![i] = [rec EXCEPT !.pc = "done", !.resp = r]]

\* the handler suspends on the awaited call c
Await(i, rec, c) ==
  inv' = [inv EXCEPT ![i] = [rec EXCEPT !.pc = c, !.calls = @ \cup {c}]]

(* ---------------------------- settlement ------------------------------- *)

\* mutant: the commission is truncated instead of rounded
MathRoundDown(num, den) == num \div den

\* Math.round(num / den) for num >= 0, den > 0: floor(num/den + 1/2)
MathRound(num, den) == (2 * num + den) \div (2 * den)

\* commissionRate = 0.05, as the fraction CommissionNum / CommissionDen
CommissionNum == 5
CommissionDen == 100

\* Math.round(sellingPrice * commissionRate)
PlatformCommission(sellingPrice) ==
  MathRound(sellingPrice * CommissionNum, CommissionDen)

\* sellingPrice - platformCommission
SellerAmount(sellingPrice) == sellingPrice - PlatformCommission(sellingPrice)

(* ---------------------------- handler steps ---------------------------- *)

\* createClient(supabaseUrl, supabaseKey) throws when either is missing
CreateClientThrows ==
  Falsy(EnvGet("SUPABASE_URL")) \/ Falsy(EnvGet("SUPABASE_SERVICE_ROLE_KEY"))

\* A request arrives: preflight, body parse, Authorization header check,
\* client creation, and the call of auth.getUser.
Receive(i, r) ==
  /\ inv[i].pc = "idle"
  /\ i > 1 => inv[i - 1].pc # "idle"
  /\ LET rec == [inv[i] EXCEPT !.req = r] IN
     IF r.method = "OPTIONS"
       THEN Respond(i, rec, PreflightResponse)
     ELSE IF r.kind \in {Unparseable, JsonNull}
       THEN Respond(i, rec, CatchResponse)
     ELSE IF Falsy(r.authorization)
       THEN Respond(i, rec, ErrorResponse(401, "No authorization header provided"))
     ELSE IF CreateClientThrows
       THEN Respond(i, rec, CatchResponse)
     ELSE Await(i, rec, "getUser")
  /\ UNCHANGED <<env, tickets, transactions, seller_payouts, external>>

\* what the identity provider can answer for a token
GetUserOutcomes(token) ==
  IF token = "invalid" THEN {"error"} ELSE {"user", "error"}

\* mutant: the validation forgets ticketId
MissingRequiredNoTicket(body) ==
  \E f \in RequiredFields \ {"ticketId"} : Falsy(body[f])

\* !razorpay_payment_id || !razorpay_order_id || !razorpay_signature || !ticketId
MissingRequired(body) == \E f \in RequiredFields : Falsy(body[f])

\* mutant: the email gate lets every resolved user through
EmailConfirmedAlways(user) == TRUE

\* user.email_confirmed_at is set
EmailConfirmed(user) == ~Falsy(user.email_confirmed_at)

\* auth.getUser returns: token, email, required-field and configuration gates,
\* then the select of the ticket.
GetUserReturns(i, outcome) ==
  /\ inv[i].pc = "getUser"
  /\ outcome \in GetUserOutcomes(inv[i].req.authorization)
  /\ LET user == IF outcome = "user"
                   THEN [found |-> TRUE,
                         email_confirmed_at |->
                           IF inv[i].req.authorization = "verified"
                             THEN Now ELSE Null]
                   ELSE NoUser
         rec == [inv[i] EXCEPT !.user = user]
     IN
     IF outcome = "error" \/ ~user.found
       THEN Respond(i, [rec EXCEPT !.failed = @ \cup {"getUser"}],
                    ErrorResponse(401, "Invalid or expired token"))
     ELSE IF ~EmailConfirmed(user)
       THEN Respond(i, rec, ErrorResponse(403, "Email verification required"))
     ELSE IF MissingRequired(rec.req.body)
       THEN Respond(i, rec, ErrorResponse(400,
              "Missing required fields: razorpay_payment_id, razorpay_order_id, razorpay_signature, ticketId"))
     ELSE IF Falsy(EnvGet("RAZORPAY_KEY_SECRET"))
       THEN Respond(i, rec, ErrorResponse(500, "Razorpay credentials not configured"))
     ELSE IF Falsy(EnvGet("SUPABASE_URL")) \/ Falsy(EnvGet("SUPABASE_SERVICE_ROLE_KEY"))
       THEN Respond(i, rec, ErrorResponse(500, "Supabase configuration missing"))
     ELSE Await(i, rec, "select")
  /\ UNCHANGED <<env, tickets, transactions, seller_payouts, external>>

\* what from('tickets').select('*').eq('id', id).single() can answer
SelectOutcomes(id) ==
  IF id \in TicketIds THEN {"row", "error"} ELSE {"error", "empty"}

\* data of the select: the row as it is in the store now, or null
FetchedRow(id, outcome) == IF outcome = "row" THEN tickets[id] ELSE NoTicket

\* mutant: only ticketError is checked, a null row passes
TicketNotFoundErrorOnly(outcome, row) == outcome = "error"

\* mutant: the lookup also rejects an item that is already sold
TicketNotFoundOrSold(outcome, row) ==
  outcome = "error" \/ row = NoTicket \/ row.status = "sold"

\* ticketError || !ticket
TicketNotFound(outcome, row) == outcome = "error" \/ row = NoTicket

\* the ticket select returns: 404 on a miss, else the amounts are computed
\* and the transaction insert is issued.
TicketFetched(i, outcome) ==
  /\ inv[i].pc = "select"
  /\ outcome \in SelectOutcomes(inv[i].req.body.ticketId)
  /\ LET row == FetchedRow(inv[i].req.body.ticketId, outcome)
         rec == IF outcome = "row" THEN [inv[i] EXCEPT !.ticket = row]
                ELSE [inv[i] EXCEPT !.failed = @ \cup {"select"}]
     IN
     IF TicketNotFound(outcome, row)
       THEN Respond(i, rec, ErrorResponse(404, "Ticket not found"))
       ELSE Await(i, rec, "insertTx")
  /\ UNCHANGED <<env, tickets, transactions, seller_payouts, external>>

\* mutant: the transaction is recorded as pending
TransactionRowPending(i, id) ==
  [id |-> id,
   ticket_id |-> inv[i].req.body.ticketId,
   buyer_id |-> OrElse(inv[i].req.body.buyer_id, Null),
   seller_id |-> inv[i].ticket.seller_id,
   amount |-> inv[i].ticket.selling_price,
   platform_fee |-> PlatformCommission(inv[i].ticket.selling_price),
   status |-> "pending",
   payment_method |-> "razorpay",
   razorpay_order_id |-> inv[i].req.body.razorpay_order_id,
   razorpay_payment_id |-> inv[i].req.body.razorpay_payment_id,
   escrow_status |-> "held",
   completed_at |-> Now,
   by |-> i]

\* the row of from('transactions').insert({...}); by is a history field
\* naming the invocation that wrote the row
TransactionRow(i, id) ==
  [id |-> id,
   ticket_id |-> inv[i].req.body.ticketId,
   buyer_id |-> OrElse(inv[i].req.body.buyer_id, Null),
   seller_id |-> inv[i].ticket.seller_id,
   amount |-> inv[i].ticket.selling_price,
   platform_fee |-> PlatformCommission(inv[i].ticket.selling_price),
   status |-> "completed",
   payment_method |-> "razorpay",
   razorpay_order_id |-> inv[i].req.body.razorpay_order_id,
   razorpay_payment_id |-> inv[i].req.body.razorpay_payment_id,
   escrow_status |-> "held",
   completed_at |-> Now,
   by |-> i]

StoreOutcomes == {"ok", "error"}

\* mutant: a transaction error is only logged
TransactionErrorIgnored(outcome) == FALSE

\* if (transactionError) return 500
TransactionErrorReturns(outcome) == outcome = "error"

\* the transaction insert returns: 500 on error, else the ticket update is issued
TransactionInserted(i, outcome) ==
  /\ inv[i].pc = "insertTx"
  /\ outcome \in StoreOutcomes
  /\ transactions' = IF outcome = "ok"
                       THEN Append(transactions, TransactionRow(i, Len(transactions) + 1))
                       ELSE transactions
  /\ LET rec == IF outcome = "ok"
                  THEN [inv[i] EXCEPT !.transaction_id = Len(transactions) + 1]
                  ELSE [inv[i] EXCEPT !.failed = @ \cup {"insertTx"}]
     IN
     IF TransactionErrorReturns(outcome)
       THEN Respond(i, rec, ErrorResponse(500, "Failed to create transaction record"))
       ELSE Await(i, rec, "updateTicket")
  /\ UNCHANGED <<env, tickets, seller_payouts, external>>

\* mutant: the update marks the item sold but leaves the passenger name
UpdatedTicketKeepsName(row, body) ==
  [row EXCEPT !.status = "sold",
              !.buyer_id = IF body.buyer_id = Undefined THEN @ ELSE body.buyer_id,
              !.sold_at = Now]

\* from('tickets').update({...}).eq('id', ticketId): an undefined buyer_id is
\* dropped by JSON.stringify and leaves the column as it was
UpdatedTicket(row, body) ==
  [row EXCEPT !.status = "sold",
              !.buyer_id = IF body.buyer_id = Undefined THEN @ ELSE body.buyer_id,
              !.passenger_name = OrElse(body.buyer_name, "Unknown Buyer"),
              !.sold_at = Now]

\* mutant: the anonymous key is preferred over the service role key
ExternalKeyAnonFirst ==
  OrElse(EnvGet("EXTERNAL_SUPABASE_ANON_KEY"), EnvGet("EXTERNAL_SUPABASE_SERVICE_ROLE_KEY"))

\* externalKey = service role key || anon key
ExternalKey ==
  OrElse(EnvGet("EXTERNAL_SUPABASE_SERVICE_ROLE_KEY"), EnvGet("EXTERNAL_SUPABASE_ANON_KEY"))

\* externalUrl && externalKey && ticket?.pnr_number
MirrorWanted(ticket) ==
  /\ ~Falsy(EnvGet("EXTERNAL_SUPABASE_URL"))
  /\ ~Falsy(ExternalKey)
  /\ ~Falsy(ticket.pnr_number)

\* fetch(`${externalUrl}/rest/v1/tickets?pnr_number=eq.${pnr}`, PATCH): the key
\* sent, the filter, and the JSON body
PatchRequest(i) ==
  [apikey |-> ExternalKey,
   pnr_number |-> inv[i].ticket.pnr_number,
   body |-> [passenger_name |-> OrElse(inv[i].req.body.buyer_name, "Unknown Buyer")]]

\* the ticket update returns (an error is only logged); then the mirror PATCH
\* is issued, or skipped and the payout insert is issued
TicketUpdated(i, outcome) ==
  /\ inv[i].pc = "updateTicket"
  /\ outcome \in StoreOutcomes
  /\ LET id == inv[i].req.body.ticketId
         rec == IF outcome = "ok" THEN inv[i]
                ELSE [inv[i] EXCEPT !.failed = @ \cup {"updateTicket"}]
     IN
     /\ tickets' = IF outcome = "ok"
                     THEN [tickets EXCEPT ![id] = UpdatedTicket(@, inv[i].req.body)]
                     ELSE tickets
     /\ IF MirrorWanted(inv[i].ticket)
          THEN Await(i, [rec EXCEPT !.patch = PatchRequest(i)], "patch")
          ELSE Await(i, rec, "insertPayout")
  /\ UNCHANGED <<env, transactions, seller_payouts, external>>

\* fetch(endpoint, PATCH) answers OK, answers a non-OK status, or throws
FetchOutcomes == {"ok", "not ok", "throws"}

\* the mirror PATCH returns (failures are only logged); the payout insert is issued
MirrorReturns(i, outcome) ==
  /\ inv[i].pc = "patch"
  /\ outcome \in FetchOutcomes
  /\ external' = IF outcome = "ok"
                   THEN [external EXCEPT ![inv[i].patch.pnr_number] =
                           inv[i].patch.body.passenger_name]
                   ELSE external
  /\ Await(i, IF outcome = "ok" THEN inv[i]
              ELSE [inv[i] EXCEPT !.failed = @ \cup {"patch"}],
           "insertPayout")
  /\ UNCHANGED <<env, tickets, transactions, seller_payouts>>

\* mutant: the payout refers to the newest transaction of the table
PayoutRowLatestTx(i) ==
  [transaction_id |-> Len(transactions),
   seller_id |-> inv[i].ticket.seller_id,
   amount |-> SellerAmount(inv[i].ticket.selling_price),
   status |-> "pending",
   payment_method |-> "upi",
   created_at |-> Now,
   by |-> i]

\* mutant: the payout is the full selling price
PayoutRowFullAmount(i) ==
  [transaction_id |-> inv[i].transaction_id,
   seller_id |-> inv[i].ticket.seller_id,
   amount |-> inv[i].ticket.selling_price,
   status |-> "pending",
   payment_method |-> "upi",
   created_at |-> Now,
   by |-> i]

\* the row of from('seller_payouts').insert({...})
PayoutRow(i) ==
  [transaction_id |-> inv[i].transaction_id,
   seller_id |-> inv[i].ticket.seller_id,
   amount |-> SellerAmount(inv[i].ticket.selling_price),
   status |-> "pending",
   payment_method |-> "upi",
   created_at |-> Now,
   by |-> i]

\* the success response
SuccessResponse(i) ==
  [status |-> 200, error |-> Null,
   transaction |-> [id |-> inv[i].transaction_id,
                    amount |-> inv[i].ticket.selling_price,
                    platformCommission |-> PlatformCommission(inv[i].ticket.selling_price),
                    sellerAmount |-> SellerAmount(inv[i].ticket.selling_price),
                    status |-> "completed"],
   ticket_status |-> "sold"]

\* mutant: a payout error is answered 500
FinalResponseFatalPayout(i, outcome) ==
  IF outcome = "error"
    THEN ErrorResponse(500, "Failed to create payout record")
    ELSE SuccessResponse(i)

\* if (payoutError) only logs; the success response follows either way
FinalResponse(i, outcome) == SuccessResponse(i)

\* the payout insert returns (an error is only logged); the handler answers 200
PayoutInserted(i, outcome) ==
  /\ inv[i].pc = "insertPayout"
  /\ outcome \in StoreOutcomes
  /\ seller_payouts' = IF outcome = "ok"
                         THEN Append(seller_payouts, PayoutRow(i))
                         ELSE seller_payouts
  /\ Respond(i, IF outcome = "ok" THEN inv[i]
               ELSE [inv[i] EXCEPT !.failed = @ \cup {"insertPayout"}],
             FinalResponse(i, outcome))
  /\ UNCHANGED <<env, tickets, transactions, external>>

Next ==
  \E i \in Invocations :
    \/ \E r \in Requests : Receive(i, r)
    \/ \E o \in {"user", "error"} : GetUserReturns(i, o)
    \/ \E o \in {"row", "error", "empty"} : TicketFetched(i, o)
    \/ \E o \in StoreOutcomes : TransactionInserted(i, o)
    \/ \E o \in StoreOutcomes : TicketUpdated(i, o)
    \/ \E o \in FetchOutcomes : MirrorReturns(i, o)
    \/ \E o \in StoreOutcomes : PayoutInserted(i, o)

Spec == Init /\ [][Next]_vars

(* The settlement specification: one invocation, with everything configured, *)
(* for an item whose selling price is any integer of 0..MaxPrice.            *)

InitCalc ==
  /\ env = FullEnv
  /\ \E p \in 0..MaxPrice :
       tickets = [InitialTickets EXCEPT !["T1"].selling_price = p]
  /\ transactions = <<>>
  /\ seller_payouts = <<>>
  /\ external = InitialExternal
  /\ inv = [i \in Invocations |-> IdleInvocation]

NextCalc ==
  \/ \E r \in Requests : Receive(1, r)
  \/ \E o \in {"user", "error"} : GetUserReturns(1, o)
  \/ \E o \in {"row", "error", "empty"} : TicketFetched(1, o)
  \/ \E o \in StoreOutcomes : TransactionInserted(1, o)
  \/ \E o \in StoreOutcomes : TicketUpdated(1, o)
  \/ \E o \in FetchOutcomes : MirrorReturns(1, o)
  \/ \E o \in StoreOutcomes : PayoutInserted(1, o)

SpecCalc == InitCalc /\ [][NextCalc]_vars

(* ---------------------------- vocabulary of the claims ----------------- *)

Done(i) == inv[i].pc = "done"

Post(i) == inv[i].req.method = "POST"

\* the calls to the primary and the secondary store, and those that write
StoreCalls == {"select", "insertTx", "updateTicket", "patch", "insertPayout"}
StoreWrites == {"insertTx", "updateTicket", "patch", "insertPayout"}

\* the rows an invocation wrote
TxBy(i) == {k \in 1..Len(transactions) : transactions[k].by = i}
PayoutsBy(i) == {k \in 1..Len(seller_payouts) : seller_payouts[k].by = i}

\* the transaction summary of a 200 response, read off a Transaction row
SummaryOf(tx) ==
  [id |-> tx.id, amount |-> tx.amount, platformCommission |-> tx.platform_fee,
   sellerAmount |-> tx.amount - tx.platform_fee, status |-> "completed"]

NonFatalSteps == {"updateTicket", "patch", "insertPayout"}

(* ---------------------------- C1 --------------------------------------- *)

\* C1: an invocation whose Transaction insert succeeded answers 200 with the
\* summary of that Transaction (id, amount, platformCommission, sellerAmount,
\* status completed), whichever of the item update, the mirror PATCH and the
\* payout insert failed.
C1_NonFatalStepsKeep200 ==
  \A i \in Invocations :
    (Done(i) /\ TxBy(i) # {}) =>
      /\ inv[i].resp.status = 200
      /\ \A k \in TxBy(i) : inv[i].resp.transaction = SummaryOf(transactions[k])
      /\ inv[i].failed \subseteq NonFatalSteps

\* two finished invocations for the same item, one with all three non-fatal
\* steps failed and one with none failed
C1_Witness ==
  \E i, j \in Invocations :
    /\ Done(i) /\ Done(j)
    /\ inv[i].req.body.ticketId = inv[j].req.body.ticketId
    /\ inv[i].failed = NonFatalSteps
    /\ inv[j].failed = {}
    /\ inv[i].resp.status = 200 /\ inv[j].resp.status = 200
    /\ inv[i].resp.transaction.amount = inv[j].resp.transaction.amount

(* ---------------------------- C2 --------------------------------------- *)

\* C2: an invocation that answered 200 created exactly one Transaction
\* (ticket_id the requested ticketId, completed, held) and at most one Payout;
\* one that answered anything else created neither; no invocation ever
\* creates more than one of either.
C2_RowsPerInvocation ==
  \A i \in Invocations :
    /\ Cardinality(TxBy(i)) <= 1
    /\ Cardinality(PayoutsBy(i)) <= 1
    /\ (Done(i) /\ inv[i].resp.status = 200) =>
         /\ Cardinality(TxBy(i)) = 1
         /\ \A k \in TxBy(i) :
              /\ transactions[k].ticket_id = inv[i].req.body.ticketId
              /\ transactions[k].status = "completed"
              /\ transactions[k].escrow_status = "held"
    /\ (Done(i) /\ inv[i].resp.status # 200) =>
         (TxBy(i) = {} /\ PayoutsBy(i) = {})

\* a 200 invocation with its Transaction and its Payout, next to one that
\* answered 500 after its Transaction insert failed
C2_Witness ==
  \E i, j \in Invocations :
    /\ Done(i) /\ inv[i].resp.status = 200
    /\ Cardinality(TxBy(i)) = 1 /\ Cardinality(PayoutsBy(i)) = 1
    /\ Done(j) /\ inv[j].resp.status = 500 /\ "insertTx" \in inv[j].failed

(* ---------------------------- C3 --------------------------------------- *)

\* the ticket select of invocation i has returned without a row
LookupMissed(i) ==
  /\ "select" \in inv[i].calls
  /\ inv[i].pc # "select"
  /\ inv[i].ticket = NoTicket

\* C3: when the item lookup misses (error or no row) the handler answers 404
\* 'Ticket not found' and the invocation creates no Transaction and no Payout,
\* updates no item and issues no mirror PATCH.
C3_LookupMiss404 ==
  \A i \in Invocations :
    LookupMissed(i) =>
      /\ Done(i)
      /\ inv[i].resp.status = 404
      /\ inv[i].resp.error = "Ticket not found"
      /\ inv[i].calls \cap StoreWrites = {}
      /\ TxBy(i) = {} /\ PayoutsBy(i) = {}

\* a lookup for an identifier no row has, answered 404, and one for an
\* existing row that the store failed to read
C3_Witness ==
  \E i, j \in Invocations :
    /\ LookupMissed(i) /\ inv[i].req.body.ticketId = MissingTicketId
    /\ inv[i].resp.status = 404
    /\ LookupMissed(j) /\ inv[j].req.body.ticketId \in TicketIds

(* ---------------------------- C4 --------------------------------------- *)

\* C4: a POST without an Authorization header is answered 401 'No
\* authorization header provided' for every request body (complete,
\* incomplete, empty, not parseable as JSON), with no identity-provider call
\* and no store read or write.
C4_NoHeader401 ==
  \A i \in Invocations :
    (Done(i) /\ Post(i) /\ Falsy(inv[i].req.authorization)) =>
      /\ inv[i].resp.status = 401
      /\ inv[i].resp.error = "No authorization header provided"
      /\ inv[i].calls = {}

(* ---------------------------- C5 --------------------------------------- *)

\* the request body parsed to an object with a required field absent or empty
FieldMissing(i) ==
  /\ Post(i) /\ inv[i].req.kind = "object"
  /\ \E f \in {"razorpay_payment_id", "razorpay_order_id",
                "razorpay_signature", "ticketId"} :
       inv[i].req.body[f] \in {Undefined, ""}

MissingFieldsMessage ==
  "Missing required fields: razorpay_payment_id, razorpay_order_id, razorpay_signature, ticketId"

\* C5 as stated: if any required body field is absent or empty the handler
\* answers 400 with the missing-fields message, and no store access occurs.
C5_Original ==
  \A i \in Invocations :
    (Done(i) /\ FieldMissing(i)) =>
      /\ inv[i].resp.status = 400
      /\ inv[i].resp.error = MissingFieldsMessage
      /\ inv[i].calls \cap StoreCalls = {}

\* C5 (amended): if any required body field is absent or empty, no store
\* access occurs in that invocation, and the handler answers 400 with the
\* missing-fields message whenever the request passed the access gate (the
\* identity provider accepted the token and the email is confirmed).
C5_MissingField400 ==
  \A i \in Invocations :
    FieldMissing(i) =>
      /\ inv[i].calls \cap StoreCalls = {}
      /\ TxBy(i) = {} /\ PayoutsBy(i) = {}
      /\ (Done(i) /\ inv[i].user.found /\ inv[i].user.email_confirmed_at = Now) =>
           /\ inv[i].resp.status = 400
           /\ inv[i].resp.error = MissingFieldsMessage

\* a verified caller whose body lacks only the ticketId, answered 400
C5_Witness ==
  \E i \in Invocations :
    /\ Done(i) /\ FieldMissing(i)
    /\ inv[i].user.found /\ inv[i].user.email_confirmed_at = Now
    /\ Falsy(inv[i].req.body.ticketId)
    /\ ~Falsy(inv[i].req.body.razorpay_signature)
    /\ inv[i].resp.status = 400

(* ---------------------------- C6 --------------------------------------- *)

\* the identity provider accepted the token of i, for a user whose email is
\* not confirmed
Unverified(i) == inv[i].user.found /\ Falsy(inv[i].user.email_confirmed_at)

\* C6: an accepted token whose user has no confirmed email is answered 403
\* 'Email verification required', with no item lookup and no store write;
\* hence every Transaction and Payout row was written by an invocation whose
\* token was accepted and whose email is confirmed.
C6_UnverifiedEmail403 ==
  /\ \A i \in Invocations :
       Unverified(i) =>
         /\ Done(i)
         /\ inv[i].resp.status = 403
         /\ inv[i].resp.error = "Email verification required"
         /\ inv[i].calls \cap StoreCalls = {}
  /\ \A k \in 1..Len(transactions) :
       /\ inv[transactions[k].by].user.found
       /\ inv[transactions[k].by].user.email_confirmed_at = Now
  /\ \A k \in 1..Len(seller_payouts) :
       /\ inv[seller_payouts[k].by].user.found
       /\ inv[seller_payouts[k].by].user.email_confirmed_at = Now

\* an unverified caller with a complete body for an existing item was
\* answered 403 while another invocation's rows are in the store
C6_Witness ==
  \E i \in Invocations :
    /\ Unverified(i) /\ Done(i)
    /\ ~FieldMissing(i)
    /\ inv[i].req.body.ticketId \in TicketIds
    /\ inv[i].resp.status = 403
    /\ Len(transactions) > 0 /\ Len(seller_payouts) > 0

(* ---------------------------- C7 --------------------------------------- *)

\* the preconditions of the fatal steps, as they hold for invocation i
HeaderPresent(i) == ~Falsy(inv[i].req.authorization)
TokenAccepted(i) ==
  IF "getUser" \in inv[i].calls /\ inv[i].pc # "getUser"
    THEN inv[i].user.found
    ELSE inv[i].req.authorization \in {"unverified", "verified"}
EmailVerified(i) == inv[i].req.authorization = "verified"
FieldsPresent(i) == inv[i].req.kind = "object" /\ ~FieldMissing(i)
GatewaySecretSet(i) == env["RAZORPAY_KEY_SECRET"] # Undefined
StoreConfigSet(i) ==
  env["SUPABASE_URL"] # Undefined /\ env["SUPABASE_SERVICE_ROLE_KEY"] # Undefined

\* the status of the first failing fatal step, in the stated order
FirstFailureStatus(i) ==
  IF ~HeaderPresent(i) THEN 401
  ELSE IF ~TokenAccepted(i) THEN 401
  ELSE IF ~EmailVerified(i) THEN 403
  ELSE IF ~FieldsPresent(i) THEN 400
  ELSE IF ~GatewaySecretSet(i) THEN 500
  ELSE IF ~StoreConfigSet(i) THEN 500
  ELSE IF "select" \in inv[i].failed THEN 404
  ELSE IF "insertTx" \in inv[i].failed THEN 500
  ELSE 200

\* C7: the response of every invocation has the status of the first failing
\* fatal step in the order credential presence (401), credential validity
\* (401), email verification (403), required fields (400), gateway secret
\* (500), store configuration (500), item fetch (404), transaction insert
\* (500), and is 200 only when none fails.  Stated here for the requests
\* whose body parses to an object, so that a violation does not rest on the
\* body parse that precedes the header check (C4).
C7_FirstFailureDecides ==
  \A i \in Invocations :
    (Done(i) /\ Post(i) /\ inv[i].req.kind = "object") =>
      inv[i].resp.status = FirstFailureStatus(i)

(* ---------------------------- C8 --------------------------------------- *)

\* C8: no invocation has issued the item update or the payout insert, or
\* written a Payout, without having inserted its Transaction before; every
\* Payout's transaction_id is the id of the Transaction its own invocation
\* inserted; an item is only sold once a Transaction for it exists.
C8_TransactionFirst ==
  /\ \A i \in Invocations :
       (inv[i].calls \cap {"updateTicket", "insertPayout"} # {} \/ PayoutsBy(i) # {}) =>
         \E k \in TxBy(i) : transactions[k].id = inv[i].transaction_id
  /\ \A p \in 1..Len(seller_payouts) :
       \E k \in TxBy(seller_payouts[p].by) :
         transactions[k].id = seller_payouts[p].transaction_id
  /\ \A t \in TicketIds :
       tickets[t].status = "sold" =>
         \E k \in 1..Len(transactions) : transactions[k].ticket_id = t

\* two interleaved invocations: the first Payout in the table belongs to the
\* second Transaction, and the item is sold
C8_Witness ==
  /\ Len(seller_payouts) = 2
  /\ seller_payouts[1].transaction_id = 2
  /\ tickets[transactions[2].ticket_id].status = "sold"

(* ---------------------------- C9 --------------------------------------- *)

\* C9: when the Transaction insert fails the handler answers 500 'Failed to
\* create transaction record' and stops: that invocation issues no item
\* update, no mirror PATCH and no payout insert, and writes no row; when it
\* is the only invocation, the stores are as they were before it.
C9_TransactionFailure500 ==
  \A i \in Invocations :
    "insertTx" \in inv[i].failed =>
      /\ Done(i)
      /\ inv[i].resp.status = 500
      /\ inv[i].resp.error = "Failed to create transaction record"
      /\ inv[i].calls \cap NonFatalSteps = {}
      /\ TxBy(i) = {} /\ PayoutsBy(i) = {}
      /\ (\A j \in Invocations \ {i} : inv[j].pc = "idle") =>
           /\ tickets = InitialTickets
           /\ transactions = <<>>
           /\ seller_payouts = <<>>
           /\ external = InitialExternal

\* a single invocation whose Transaction insert failed, for an item with a
\* correlation key and with the secondary store configured
C9_Witness ==
  \E i \in Invocations :
    /\ "insertTx" \in inv[i].failed /\ Done(i)
    /\ \A j \in Invocations \ {i} : inv[j].pc = "idle"
    /\ inv[i].ticket.pnr_number = "PNR1"
    /\ env["EXTERNAL_SUPABASE_URL"] # Undefined
    /\ env["EXTERNAL_SUPABASE_SERVICE_ROLE_KEY"] # Undefined

(* ---------------------------- C10 -------------------------------------- *)

\* invocation i made its store calls, the item lookup included, and none of
\* its calls failed
AllCallsSucceeded(i) ==
  Done(i) /\ "select" \in inv[i].calls /\ inv[i].failed = {}

\* the Transactions for item t written by the invocations in S
TxFor(t, S) ==
  {k \in 1..Len(transactions) :
     transactions[k].ticket_id = t /\ transactions[k].by \in S}

\* C10: two invocations with valid credentials and the same ticketId, in any
\* interleaving, whose store calls all succeed, both answer 200 and leave two
\* Transactions and two Payouts for that item: nothing is deduplicated and
\* the item's status decides nothing.
C10_NoDeduplication ==
  \A i, j \in Invocations :
    (/\ i # j
     /\ AllCallsSucceeded(i) /\ AllCallsSucceeded(j)
     /\ inv[i].req.body.ticketId = inv[j].req.body.ticketId) =>
      /\ inv[i].resp.status = 200 /\ inv[j].resp.status = 200
      /\ Cardinality(TxFor(inv[i].req.body.ticketId, {i, j})) = 2
      /\ Cardinality({p \in 1..Len(seller_payouts) :
            \E k \in TxFor(inv[i].req.body.ticketId, {i, j}) :
              transactions[k].id = seller_payouts[p].transaction_id}) = 2

\* the second invocation read the item when it was already sold, and both
\* answered 200
C10_Witness ==
  \E i, j \in Invocations :
    /\ i # j
    /\ AllCallsSucceeded(i) /\ AllCallsSucceeded(j)
    /\ inv[i].req.body.ticketId = inv[j].req.body.ticketId
    /\ inv[j].ticket.status = "sold"
    /\ inv[i].resp.status = 200 /\ inv[j].resp.status = 200

(* ---------------------------- C11 -------------------------------------- *)

\* C11: every write the handler makes to an Item row takes its status from
\* 'available' to 'sold'; a row that is already 'sold' is never written
\* again, so its buyer_id, passenger_name and sold_at stay as they are.
C11_OnlyAvailableToSold ==
  [][\A t \in TicketIds :
       tickets'[t] # tickets[t] =>
         (tickets[t].status = "available" /\ tickets'[t].status = "sold")]_vars

(* ---------------------------- C12 -------------------------------------- *)

\* C12: for every non-negative integer selling price p read at the lookup,
\* platformCommission = floor((5p + 50) / 100) (p x 0.05 with the half
\* rounded up) and sellerAmount = p - platformCommission, so that the two add
\* up to p and 0 <= platformCommission <= p; the 200 response carries them.
C12_CommissionFormula ==
  \A i \in Invocations :
    (Done(i) /\ inv[i].resp.status = 200) =>
      LET p == inv[i].ticket.selling_price
          c == inv[i].resp.transaction.platformCommission
          a == inv[i].resp.transaction.sellerAmount
      IN /\ c = (5 * p + 50) \div 100
         /\ a = p - c
         /\ c + a = p
         /\ 0 <= c /\ c <= p
         /\ inv[i].resp.transaction.amount = p

\* a price whose twentieth is a half: 10 x 0.05 = 0.5 is rounded up to 1
C12_Witness ==
  \E i \in Invocations :
    /\ Done(i) /\ inv[i].resp.status = 200
    /\ inv[i].ticket.selling_price = 10
    /\ inv[i].resp.transaction.platformCommission = 1
    /\ inv[i].resp.transaction.sellerAmount = 9

(* ---------------------------- C13 -------------------------------------- *)

\* invocation i is the only one, and its request names a buyer id and a
\* buyer name
SingleWithBuyer(i) ==
  /\ \A j \in Invocations \ {i} : inv[j].pc = "idle"
  /\ inv[i].req.body.buyer_id \notin {Undefined, Null, ""}
  /\ inv[i].req.body.buyer_name \notin {Undefined, Null, ""}

\* C13: after a single invocation in which every step succeeds, with buyer_id
\* B and buyer_name N for an item of price p and seller S: the Item row is
\* 'sold' with buyer_id B and passenger_name N; exactly one Payout exists,
\* with amount p - round(p x 0.05), seller_id S and status 'pending'; the
\* response is 200 with transaction.amount = p and ticket.status = 'sold'.
C13_SuccessfulSale ==
  \A i \in Invocations :
    (AllCallsSucceeded(i) /\ SingleWithBuyer(i)) =>
      LET item == tickets[inv[i].req.body.ticketId]
          p == item.selling_price
      IN /\ item.status = "sold"
         /\ item.buyer_id = inv[i].req.body.buyer_id
         /\ item.passenger_name = inv[i].req.body.buyer_name
         /\ item.sold_at = Now
         /\ Len(seller_payouts) = 1
         /\ seller_payouts[1].amount = p - ((5 * p + 50) \div 100)
         /\ seller_payouts[1].seller_id = item.seller_id
         /\ seller_payouts[1].status = "pending"
         /\ inv[i].resp.status = 200
         /\ inv[i].resp.transaction.amount = p
         /\ inv[i].resp.ticket_status = "sold"

\* the sale of item T1 at price 1000 by seller S1 to buyer B1, Alice:
\* commission 50, payout 950
C13_Witness ==
  \E i \in Invocations :
    /\ AllCallsSucceeded(i) /\ SingleWithBuyer(i)
    /\ inv[i].req.body.ticketId = "T1"
    /\ inv[i].req.body.buyer_id = "B1" /\ inv[i].req.body.buyer_name = "Alice"
    /\ tickets["T1"].selling_price = 1000
    /\ tickets["T1"].passenger_name = "Alice"
    /\ inv[i].resp.transaction.platformCommission = 50
    /\ seller_payouts[1].amount = 950

(* ---------------------------- C14 -------------------------------------- *)

\* the request of i passes every step before the configuration checks: a
\* header whose token is accepted for a verified user, and a complete body
PassesGates(i) ==
  /\ Post(i) /\ inv[i].req.authorization = "verified"
  /\ "getUser" \notin inv[i].failed
  /\ FieldsPresent(i)

\* C14: when the gateway secret is absent, or the primary store URL or its
\* service credential is absent, the handler answers 500 with the
\* corresponding configuration error ('Razorpay credentials not configured' /
\* 'Supabase configuration missing'), before the item lookup and without any
\* store write.  Stated for the requests that pass the earlier steps.
C14_ConfigurationErrors ==
  \A i \in Invocations :
    (Done(i) /\ PassesGates(i)) =>
      /\ ~GatewaySecretSet(i) =>
           /\ inv[i].resp.status = 500
           /\ inv[i].resp.error = "Razorpay credentials not configured"
           /\ inv[i].calls \cap StoreCalls = {}
      /\ ~StoreConfigSet(i) =>
           /\ inv[i].resp.status = 500
           /\ inv[i].resp.error = "Supabase configuration missing"
           /\ inv[i].calls \cap StoreCalls = {}

(* ---------------------------- C15 -------------------------------------- *)

\* the item update of i has returned: i reached the mirror step
ReachedMirror(i) ==
  "updateTicket" \in inv[i].calls /\ inv[i].pc # "updateTicket"

SecondaryUrlSet == env["EXTERNAL_SUPABASE_URL"] # Undefined
SecondaryServiceKeySet == env["EXTERNAL_SUPABASE_SERVICE_ROLE_KEY"] # Undefined
SecondaryAnonKeySet == env["EXTERNAL_SUPABASE_ANON_KEY"] # Undefined

\* C15: the mirror PATCH is issued if and only if the invocation reached the
\* mirror step, the secondary store URL and one of its credentials are
\* configured, and the fetched item has a non-empty pnr_number; otherwise it
\* is skipped without error.  When issued it uses the service credential if
\* there is one and the anonymous one otherwise, filters on that pnr_number
\* and sets only passenger_name, to buyer_name or to 'Unknown Buyer' when
\* buyer_name is absent or empty.
C15_MirrorIssuedIff ==
  \A i \in Invocations :
    /\ "patch" \in inv[i].calls <=>
         /\ ReachedMirror(i)
         /\ SecondaryUrlSet
         /\ SecondaryServiceKeySet \/ SecondaryAnonKeySet
         /\ inv[i].ticket.pnr_number \notin {Undefined, Null, ""}
    /\ (ReachedMirror(i) /\ "patch" \notin inv[i].calls) =>
         /\ "patch" \notin inv[i].failed
         /\ "insertPayout" \in inv[i].calls
         /\ inv[i].patch = NoPatch
    /\ "patch" \in inv[i].calls =>
         /\ inv[i].patch.apikey =
              (IF SecondaryServiceKeySet
                 THEN env["EXTERNAL_SUPABASE_SERVICE_ROLE_KEY"]
                 ELSE env["EXTERNAL_SUPABASE_ANON_KEY"])
         /\ inv[i].patch.pnr_number = inv[i].ticket.pnr_number
         /\ DOMAIN inv[i].patch.body = {"passenger_name"}
         /\ inv[i].patch.body.passenger_name =
              (IF inv[i].req.body.buyer_name \in {Undefined, ""}
                 THEN "Unknown Buyer" ELSE inv[i].req.body.buyer_name)

\* with only the anonymous key configured: a PATCH for an item with a
\* pnr_number and a request without buyer_name, and an invocation for an item
\* without pnr_number that skipped the mirror and finished
C15_Witness ==
  \E i, j \in Invocations :
    /\ "patch" \in inv[i].calls
    /\ inv[i].patch.apikey = "EXTERNAL_SUPABASE_ANON_KEY"
    /\ inv[i].req.body.buyer_name = Undefined
    /\ inv[i].patch.body.passenger_name = "Unknown Buyer"
    /\ ReachedMirror(j) /\ "patch" \notin inv[j].calls /\ Done(j)

(* ---------------------------- C16 -------------------------------------- *)

\* C16: within an invocation the transaction insert, the item update and the
\* payout insert come first and the mirror comes after them: the mirror
\* PATCH is never issued before the payout insert has been attempted, so a
\* PATCH that never returns cannot keep the Payout from being created.
C16_MirrorAfterPayout ==
  \A i \in Invocations :
    "patch" \in inv[i].calls => "insertPayout" \in inv[i].calls

(* ---------------------------- C17 -------------------------------------- *)

\* C17: every Payout refers to a Transaction written by the same invocation,
\* with the same seller_id, and payout.amount + platform_fee = amount, where
\* amount is the selling price that invocation read at its lookup; the
\* amounts of that invocation's 200 response are the persisted ones.
C17_PayoutMatchesTransaction ==
  /\ \A p \in 1..Len(seller_payouts) :
       \E k \in TxBy(seller_payouts[p].by) :
         /\ transactions[k].id = seller_payouts[p].transaction_id
         /\ transactions[k].seller_id = seller_payouts[p].seller_id
         /\ seller_payouts[p].amount + transactions[k].platform_fee
              = transactions[k].amount
         /\ transactions[k].amount = inv[seller_payouts[p].by].ticket.selling_price
  /\ \A i \in Invocations :
       (Done(i) /\ inv[i].resp.status = 200) =>
         /\ \A k \in TxBy(i) :
              /\ inv[i].resp.transaction.amount = transactions[k].amount
              /\ inv[i].resp.transaction.platformCommission = transactions[k].platform_fee
         /\ \A p \in PayoutsBy(i) :
              inv[i].resp.transaction.sellerAmount = seller_payouts[p].amount

\* two finished invocations for different items and sellers, interleaved so
\* that the first Payout belongs to the second Transaction
C17_Witness ==
  /\ Len(seller_payouts) = 2 /\ Len(transactions) = 2
  /\ seller_payouts[1].transaction_id = 2
  /\ seller_payouts[1].seller_id # seller_payouts[2].seller_id
  /\ \A i \in Invocations : Done(i) /\ inv[i].resp.status = 200

(* ---------------------------- C18 -------------------------------------- *)

\* every invocation has finished (or never started), with all its calls
\* succeeding, and the secondary store is configured
AllFinishedWell ==
  /\ \A i \in Invocations : inv[i].pc \in {"idle", "done"}
  /\ \A i \in Invocations : Done(i) => AllCallsSucceeded(i)
  /\ SecondaryUrlSet
  /\ SecondaryServiceKeySet \/ SecondaryAnonKeySet

\* C18: once all invocations for an item with a pnr_number have finished
\* with every step succeeding and the secondary store configured, the
\* passenger_name in the secondary store for that pnr_number is the
\* passenger_name of the Item row, also when two invocations for the item
\* interleave between their item update and their mirror PATCH.
C18_MirrorMatchesPrimary ==
  AllFinishedWell =>
    \A t \in TicketIds :
      (/\ tickets[t].pnr_number \in PnrNumbers
       /\ \E i \in Invocations : Done(i) /\ inv[i].req.body.ticketId = t) =>
        external[tickets[t].pnr_number] = tickets[t].passenger_name

====
